---- MODULE Spec2Model ----
(***************************************************************************)
(* Model of data_download.py: the Binance kline downloader.                *)
(*                                                                         *)
(* A caller can use download_full_klines (which drives                     *)
(* get_start_end_pairs, interval_to_seconds and get_klines), or            *)
(* get_start_end_pairs or get_klines on their own.  Every behaviour is     *)
(* one call of one of the three, followed step by step.                    *)
(*                                                                         *)
(* Representation.  An interval token is the sequence of its characters    *)
(* ("15m" is <<"1","5","m">>) so that slicing and int() are computed.      *)
(* Dates are day numbers counted from 1970-01-01 and the local time zone   *)
(* is UTC, so mktime(day) = day * 86400.  Timestamps are seconds, request  *)
(* parameters and candle open times are milliseconds, as in the code.      *)
(* A raw kline row keeps its first field (open time) and its last field    *)
(* (the unused one the downloader strips): <<open_time, 0>>.               *)
(***************************************************************************)
EXTENDS Integers, Sequences, FiniteSets, TLC

\* ------------------------------------------------------------------ bounds
\* Dates range over day 0 .. MaxDay.
MaxDay == 1
\* get_klines called on its own takes retry_attempts in 0 .. MaxRetry.
MaxRetry == 3
\* The exchange answers a request with 0 .. MaxRows rows.
MaxRows == 1

\* ------------------------------------------------------- program constants
REQ_LIMIT == 1000
DefaultRetryAttempts == 3
BackoffSeconds == 2
SecondsPerDay == 86400

SUPPORT_INTERVAL ==
  { <<"1","m">>, <<"3","m">>, <<"5","m">>, <<"1","5","m">>, <<"3","0","m">>,
    <<"1","h">>, <<"2","h">>, <<"4","h">>, <<"6","h">>, <<"8","h">>,
    <<"1","2","h">>, <<"1","d">>, <<"3","d">>, <<"1","w">>, <<"1","M">> }

\* Tokens a caller may pass that are not in SUPPORT_INTERVAL.
OtherIntervals == { <<"2","m">>, <<"1","s">>, <<"h">> }

\* Seconds past midnight at which datetime.now() may fall when end is None.
NowOffsets == { 1, 60000, 86399 }

\* Status of one HTTP exchange: 0 stands for no response at all (connection
\* error or timeout), the others are HTTP status codes.
Statuses == { 0, 200, 500 }

\* save_to values: <<>> is None or "" (both falsy), otherwise the path's
\* components.
SaveTos == { <<>>, <<"k.csv">>, <<"data", "k.csv">> }

Dimensions == { "ohlcv", "full" }

\* ------------------------------------------------------------ pure helpers
Min(a, b) == IF a <= b THEN a ELSE b

Digits == { "0", "1", "2", "3", "4", "5", "6", "7", "8", "9" }

DigitVal(c) ==
  CASE c = "0" -> 0 [] c = "1" -> 1 [] c = "2" -> 2 [] c = "3" -> 3
    [] c = "4" -> 4 [] c = "5" -> 5 [] c = "6" -> 6 [] c = "7" -> 7
    [] c = "8" -> 8 [] c = "9" -> 9

RECURSIVE DecimalValue(_)
DecimalValue(s) ==
  IF s = <<>> THEN 0
  ELSE 10 * DecimalValue(SubSeq(s, 1, Len(s) - 1)) + DigitVal(s[Len(s)])

\* int(s) for a string of characters: a value, or ValueError.
IntOf(s) ==
  IF s # <<>> /\ \A i \in 1..Len(s) : s[i] \in Digits
  THEN [err |-> "none", val |-> DecimalValue(s)]
  ELSE [err |-> "ValueError", val |-> 0]

seconds_per_unit ==
  [u \in {"m", "h", "d", "w"} |->
     CASE u = "m" -> 60
       [] u = "h" -> 60 * 60
       [] u = "d" -> 24 * 60 * 60
       [] u = "w" -> 7 * 24 * 60 * 60]

\* int(interval[:-1]) * seconds_per_unit[interval[-1]]: the left operand is
\* evaluated first, so a bad number raises before a bad unit does.
interval_to_seconds(interval) ==
  LET n == IntOf(SubSeq(interval, 1, Len(interval) - 1))
      u == interval[Len(interval)]
  IN  IF n.err # "none" THEN n
      ELSE IF u \notin DOMAIN seconds_per_unit
           THEN [err |-> "KeyError", val |-> 0]
           ELSE [err |-> "none", val |-> n.val * seconds_per_unit[u]]

\* int(time.mktime(datetime.strptime(d, "%Y-%m-%d").timetuple()))
mktime(day) == day * SecondsPerDay

\* interval not in SUPPORT_INTERVAL (line 63)
IsSupportedAlways(interval) == TRUE
IsSupported(interval) == interval \in SUPPORT_INTERVAL

\* while cur_end < end_dt_ts - ts_interval (line 131)
WhileCondInclusive(ce, e, ts) == ce <= e
WhileCond(ce, e, ts) == ce < e - ts

\* min(end_dt_ts, cur_start + (REQ_LIMIT - 1) * ts_interval) (line 132)
WindowEndFullLimit(cs, e, ts) == Min(e, cs + REQ_LIMIT * ts)
WindowEnd(cs, e, ts) == Min(e, cs + (REQ_LIMIT - 1) * ts)

\* cur_start = cur_end + ts_interval (line 134)
NextStartNoStep(ce, ts) == ce
NextStart(ce, ts) == ce + ts

\* raise_for_status raises for 4xx/5xx; a transport error raises by itself.
\* Both are requests.exceptions.RequestException.
Failed(status) == status = 0 \/ (status >= 400 /\ status < 600)

\* for attempt in range(retry_attempts): the loop is over (line 49)
RetriesExhaustedLate(a, n) == a > n
RetriesExhausted(a, n) == a >= n

\* if len(tmp_kline) > 0: klines.append(tmp_kline) (lines 71-72)
AccumulateAll(ks, tmp) == Append(ks, tmp)
Accumulate(ks, tmp) == IF Len(tmp) > 0 THEN Append(ks, tmp) ELSE ks

\* np.concatenate over the list of per-window row lists (line 76)
RECURSIVE Concatenate(_)
Concatenate(ks) ==
  IF ks = <<>> THEN <<>> ELSE Head(ks) \o Concatenate(Tail(ks))

\* The request parameters of get_klines (lines 39-47). 'if since:' skips
\* None and 0 alike; an absent key is the empty sequence.
Truthy(x) == x # <<>> /\ x[1] # 0
MakeParams(iv, since, limit, to) ==
  [interval  |-> iv,
   limit     |-> limit,
   startTime |-> IF Truthy(since) THEN <<since[1] * 1000>> ELSE <<>>,
   endTime   |-> IF Truthy(to) THEN <<to[1] * 1000>> ELSE <<>>]

\* What the exchange may answer to a request: n candles from the requested
\* start (or from the epoch), one interval apart.
ServerRows(p, n) ==
  LET base == IF p.startTime = <<>> THEN 0 ELSE p.startTime[1]
      conv == interval_to_seconds(p.interval)
      step == IF conv.err = "none" THEN conv.val * 1000 ELSE 1000
  IN  [i \in 1..n |-> <<base + (i - 1) * step, 0>>]

ServerBodies(p) == { ServerRows(p, n) : n \in 0..MaxRows }

\* ------------------------------------------------------------------- state
VARIABLES
  call,            \* which function the caller invoked
  interval,        \* the interval argument
  start,           \* start date (day number)
  end,             \* end date: <<>> is None, <<d>> a date
  now,             \* datetime.now() in seconds, read when end is None
  req_interval,    \* inter-request delay, 0 is None
  pc,              \* position in the code
  error,           \* the exception that left the call, or "none"
  end_dt_ts,       \* get_start_end_pairs locals
  ts_interval,
  cur_start,
  cur_end,
  res,
  start_end_pairs, \* download_full_klines locals
  idx,
  klines,
  fetched,         \* the (since, to) of each get_klines call of the for loop
  results,         \* the value tmp_kline took on each iteration
  params,          \* get_klines locals
  retry_attempts,
  attempt,
  resp,
  ret,
  log,             \* HTTP exchanges and sleeps since get_klines was entered
  calls,           \* HTTP requests issued so far
  file             \* <<>> or <<the CSV file written>>

vars == << call, interval, start, end, now, req_interval, pc, error,
           end_dt_ts, ts_interval, cur_start, cur_end, res,
           start_end_pairs, idx, klines, fetched, results,
           params, retry_attempts, attempt, resp, ret, log, calls, file >>

inputVars == << call, interval, start, end, now, req_interval >>
pairVars == << end_dt_ts, ts_interval, cur_start, cur_end, res >>
loopVars == << start_end_pairs, idx, klines, fetched, results >>
fetchVars == << params, retry_attempts, attempt, resp, ret, log, calls >>

NoResp == [status |-> 0, body |-> <<>>]
NoParams == MakeParams(<<>>, <<>>, 0, <<>>)

start_dt_ts == mktime(start)

\* The arguments start, end and interval, and the clock read for end=None.
InitDates ==
  /\ interval \in SUPPORT_INTERVAL \cup OtherIntervals
  /\ start \in 0..MaxDay
  /\ \/ /\ end \in { <<d>> : d \in 0..MaxDay }
        /\ now = 0
     \/ /\ end = <<>>
        /\ now \in { mktime(d) + o : d \in 0..MaxDay, o \in NowOffsets }

InitDownload ==
  /\ call = "download_full_klines"
  /\ InitDates
  /\ req_interval \in {0, 1}
  /\ pc = "download"
  /\ params = NoParams
  /\ retry_attempts = 0

InitPairs ==
  /\ call = "get_start_end_pairs"
  /\ InitDates
  /\ req_interval = 0
  /\ pc = "pairs"
  /\ params = NoParams
  /\ retry_attempts = 0

InitGetKlines ==
  /\ call = "get_klines"
  /\ interval \in { <<"1","h">>, <<"1","m">> }
  /\ start = 0
  /\ end = <<>>
  /\ now = 0
  /\ req_interval = 0
  /\ pc = "get"
  /\ \E since \in { <<>>, <<0>>, <<mktime(1)>> }, to \in { <<>>, <<mktime(2)>> } :
       params = MakeParams(interval, since, REQ_LIMIT, to)
  /\ retry_attempts \in 0..MaxRetry

Init ==
  /\ InitDownload \/ InitPairs \/ InitGetKlines
  /\ error = "none"
  /\ end_dt_ts = 0 /\ ts_interval = 0 /\ cur_start = 0 /\ cur_end = 0
  /\ res = <<>>
  /\ start_end_pairs = <<>> /\ idx = 0 /\ klines = <<>> /\ fetched = <<>>
  /\ results = <<>>
  /\ attempt = 0 /\ resp = NoResp /\ ret = <<>> /\ log = <<>> /\ calls = 0
  /\ file = <<>>

\* ------------------------------------------------- download_full_klines
\* Lines 63-64: the interval is rejected before anything else happens.
RaiseUnsupported ==
  /\ pc = "download"
  /\ ~IsSupported(interval)
  /\ pc' = "raised"
  /\ error' = "Exception: interval is not supported"
  /\ UNCHANGED << inputVars, pairVars, loopVars, fetchVars, file >>

\* Line 66: the call of get_start_end_pairs.
CallPairs ==
  /\ pc = "download"
  /\ IsSupported(interval)
  /\ pc' = "pairs"
  /\ UNCHANGED << inputVars, error, pairVars, loopVars, fetchVars, file >>

\* ---------------------------------------------------- get_start_end_pairs
\* Lines 119-130: the two timestamps, the interval in seconds (which may
\* raise) and the loop variables.
EnterPairs ==
  /\ pc = "pairs"
  /\ end_dt_ts' = IF end = <<>> THEN now ELSE mktime(end[1])
  /\ LET conv == interval_to_seconds(interval)
     IN  IF conv.err # "none"
         THEN /\ error' = conv.err
              /\ pc' = "raised"
              /\ UNCHANGED << ts_interval, cur_start, cur_end, res >>
         ELSE /\ ts_interval' = conv.val
              /\ cur_start' = start_dt_ts
              /\ cur_end' = start_dt_ts
              /\ res' = <<>>
              /\ pc' = "while"
              /\ error' = error
  /\ UNCHANGED << inputVars, loopVars, fetchVars, file >>

\* Lines 131-134: one iteration of the window loop.
WhileBody ==
  /\ pc = "while"
  /\ WhileCond(cur_end, end_dt_ts, ts_interval)
  /\ cur_end' = WindowEnd(cur_start, end_dt_ts, ts_interval)
  /\ res' = Append(res, <<cur_start, cur_end'>>)
  /\ cur_start' = NextStart(cur_end', ts_interval)
  /\ UNCHANGED << inputVars, pc, error, end_dt_ts, ts_interval, loopVars,
                  fetchVars, file >>

\* Lines 131 and 135: the loop ends and res is returned, to the direct
\* caller or to download_full_klines, which sets up its loop (lines 66-67).
WhileExit ==
  /\ pc = "while"
  /\ ~WhileCond(cur_end, end_dt_ts, ts_interval)
  /\ start_end_pairs' = res
  /\ klines' = <<>>
  /\ IF call = "download_full_klines"
     THEN idx' = 1 /\ pc' = "for"
     ELSE idx' = idx /\ pc' = "returned"
  /\ UNCHANGED << inputVars, error, pairVars, fetched, results, fetchVars,
                  file >>

\* ------------------------------------------------- the download for loop
\* Lines 69-70: the next window is taken and get_klines is entered with
\* the default retry_attempts.
ForCall ==
  /\ pc = "for"
  /\ idx <= Len(start_end_pairs)
  /\ LET w == start_end_pairs[idx]
     IN  /\ params' = MakeParams(interval, <<w[1]>>, REQ_LIMIT, <<w[2]>>)
         /\ fetched' = Append(fetched, w)
  /\ retry_attempts' = DefaultRetryAttempts
  /\ attempt' = 0
  /\ log' = <<>>
  /\ pc' = "get"
  /\ UNCHANGED << inputVars, error, pairVars, start_end_pairs, idx, klines,
                  results, resp, ret, calls, file >>

\* Lines 70-74: get_klines has returned; a non-empty result is kept, the
\* optional delay is slept and the loop moves on.
ForBody ==
  /\ pc = "ret"
  /\ call = "download_full_klines"
  /\ klines' = Accumulate(klines, ret)
  /\ results' = Append(results, ret)
  /\ log' = IF req_interval # 0
            THEN Append(log, [op |-> "sleep", arg |-> req_interval])
            ELSE log
  /\ idx' = idx + 1
  /\ pc' = "for"
  /\ UNCHANGED << inputVars, error, pairVars, start_end_pairs, fetched,
                  params, retry_attempts, attempt, resp, ret, calls, file >>

\* -------------------------------------------------------------- get_klines
\* Lines 49-57, failure branch: the request raises a RequestException, it
\* is logged, the thread sleeps 2 seconds and the loop goes on.
GetFail ==
  /\ pc = "get"
  /\ ~RetriesExhausted(attempt, retry_attempts)
  /\ \E status \in Statuses :
       /\ Failed(status)
       /\ resp' = [status |-> status, body |-> <<>>]
       /\ log' = log \o << [op |-> "GET", arg |-> status],
                           [op |-> "sleep", arg |-> BackoffSeconds] >>
  /\ attempt' = attempt + 1
  /\ calls' = calls + 1
  /\ UNCHANGED << inputVars, pc, error, pairVars, loopVars, params,
                  retry_attempts, ret, file >>

\* GetOk without the return: the loop goes on after a success.
GetOkKeepGoing ==
  /\ pc = "get"
  /\ ~RetriesExhausted(attempt, retry_attempts)
  /\ \E status \in Statuses, body \in ServerBodies(params) :
       /\ ~Failed(status)
       /\ resp' = [status |-> status, body |-> body]
       /\ ret' = body
       /\ log' = Append(log, [op |-> "GET", arg |-> status])
  /\ calls' = calls + 1
  /\ attempt' = attempt + 1
  /\ UNCHANGED << inputVars, pc, error, pairVars, loopVars, params,
                  retry_attempts, file >>

\* Lines 49-54, success branch: the decoded body is returned at once.
GetOk ==
  /\ pc = "get"
  /\ ~RetriesExhausted(attempt, retry_attempts)
  /\ \E status \in Statuses, body \in ServerBodies(params) :
       /\ ~Failed(status)
       /\ resp' = [status |-> status, body |-> body]
       /\ ret' = body
       /\ log' = Append(log, [op |-> "GET", arg |-> status])
  /\ calls' = calls + 1
  /\ pc' = "ret"
  /\ UNCHANGED << inputVars, error, pairVars, loopVars, params,
                  retry_attempts, attempt, file >>

\* Line 58: every attempt failed (or there was none): return [].
GetExhausted ==
  /\ pc = "get"
  /\ RetriesExhausted(attempt, retry_attempts)
  /\ ret' = <<>>
  /\ pc' = "ret"
  /\ UNCHANGED << inputVars, error, pairVars, loopVars, params,
                  retry_attempts, attempt, resp, log, calls, file >>

\* ------------------------------------------------ reshape and write
Columns ==
  << "open_time", "open", "high", "low", "close", "volume", "close_time",
     "value", "trade_cnt", "active_buy_volume", "active_buy_value" >>

\* Lines 92 and 101-102: close_time is dropped, "ohlcv" keeps the first six.
ColumnsKept(dimension) ==
  IF dimension = "ohlcv"
  THEN SubSeq(Columns, 1, 6)
  ELSE SelectSeq(Columns, LAMBDA c : c # "close_time")

\* pd.to_datetime(open_time, unit="ms").strftime("%Y-%m-%d"), as a day number
DateOfMs(ms) == ms \div (SecondsPerDay * 1000)

\* Line 76 with no array collected: np.concatenate([]) raises ValueError.
ConcatenateEmpty ==
  /\ pc = "for"
  /\ idx > Len(start_end_pairs)
  /\ klines = <<>>
  /\ error' = "ValueError: need at least one array to concatenate"
  /\ pc' = "raised"
  /\ UNCHANGED << inputVars, pairVars, loopVars, fetchVars, file >>

\* Lines 76-83: the rows are concatenated in window order (klines is
\* rebound to the result) and the trailing field of each row is dropped.
StripLast(rows) == [i \in 1..Len(rows) |-> SubSeq(rows[i], 1, Len(rows[i]) - 1)]

\* Lines 76-114 when the write succeeds.
Persist ==
  /\ pc = "for"
  /\ idx > Len(start_end_pairs)
  /\ klines # <<>>
  /\ klines' = Concatenate(klines)
  /\ \E save_to \in SaveTos, dimension \in Dimensions, dir_exists \in BOOLEAN :
       LET data == StripLast(klines')
           open_time == [i \in 1..Len(data) |-> data[i][1]]
           save_dir == SubSeq(save_to, 1, Len(save_to) - 1)
       IN  /\ save_to # <<>> => save_dir # <<>>
           /\ save_to = <<>> => dir_exists
           /\ file' = << [path       |-> save_to,
                          real_start |-> DateOfMs(open_time[1]),
                          real_end   |-> DateOfMs(open_time[Len(open_time)]),
                          made_dir   |-> ~dir_exists,
                          columns    |-> ColumnsKept(dimension),
                          open_time  |-> open_time] >>
  /\ pc' = "done"
  /\ UNCHANGED << inputVars, error, pairVars, start_end_pairs, idx, fetched,
                  results, fetchVars >>

\* Lines 108-111 with a bare file name: dirname is "", which does not
\* exist, and os.makedirs("") raises FileNotFoundError.
PersistNoDir ==
  /\ pc = "for"
  /\ idx > Len(start_end_pairs)
  /\ klines # <<>>
  /\ klines' = Concatenate(klines)
  /\ \E save_to \in SaveTos :
       save_to # <<>> /\ SubSeq(save_to, 1, Len(save_to) - 1) = <<>>
  /\ error' = "FileNotFoundError"
  /\ pc' = "raised"
  /\ UNCHANGED << inputVars, pairVars, start_end_pairs, idx, fetched,
                  results, fetchVars, file >>

Next ==
  \/ RaiseUnsupported
  \/ CallPairs
  \/ EnterPairs
  \/ WhileBody
  \/ WhileExit
  \/ ForCall
  \/ ForBody
  \/ GetFail
  \/ GetOk
  \/ GetExhausted
  \/ ConcatenateEmpty
  \/ Persist
  \/ PersistNoDir

Spec == Init /\ [][Next]_vars

\* get_start_end_pairs called on its own.  It is sequential code: a step
\* that can be taken is taken.
PairsNext ==
  \/ EnterPairs
  \/ WhileBody
  \/ WhileExit

PairsInit == Init /\ call = "get_start_end_pairs"

PairsSpec == PairsInit /\ [][PairsNext]_vars /\ WF_vars(PairsNext)

\* ================================================================ claims
\* The windows computed so far, and whether get_start_end_pairs returned.
PairsReturned ==
  \/ call = "download_full_klines" /\ pc \in {"for", "get", "ret", "done"}
  \/ call = "get_start_end_pairs" /\ pc = "returned"
FirstOf(ws) == ws[1]
LastOf(ws) == ws[Len(ws)]

\* C1: any two consecutive windows of get_start_end_pairs satisfy
\* next start = previous end + interval seconds (no gap, no overlap at joins).
C1_Contiguous ==
  /\ \A i \in 1..(Len(res) - 1) : res[i + 1][1] = res[i][2] + ts_interval
  /\ PairsReturned =>
       \A i \in 1..(Len(start_end_pairs) - 1) :
         start_end_pairs[i + 1][1] = start_end_pairs[i][2] + ts_interval

C1_Witness ==
  /\ PairsReturned
  /\ Len(start_end_pairs) >= 3
  /\ start_end_pairs[2][1] = start_end_pairs[1][2] + ts_interval

\* C2 (as claimed): whenever start <= end, get_start_end_pairs returns a
\* non-empty sequence whose first window starts at the overall start and
\* whose last window ends at the overall end.
C2_CoversSpan ==
  (PairsReturned /\ start_dt_ts <= end_dt_ts) =>
     /\ start_end_pairs # <<>>
     /\ FirstOf(start_end_pairs)[1] = start_dt_ts
     /\ LastOf(start_end_pairs)[2] = end_dt_ts

\* C3: every window has start <= end and spans at most REQ_LIMIT - 1
\* intervals, so the REQ_LIMIT rows requested per window hold every candle
\* open time of the window.
CandlesIn(w, ts) == (w[2] - w[1]) \div ts + 1

C3_WindowWithinLimit ==
  /\ \A i \in 1..Len(res) :
       /\ res[i][1] <= res[i][2]
       /\ res[i][2] - res[i][1] <= (REQ_LIMIT - 1) * ts_interval
  /\ (call = "download_full_klines" /\ pc \in {"get", "ret"}) =>
       /\ fetched # <<>>
       /\ CandlesIn(LastOf(fetched), ts_interval) <= params.limit
       /\ params.limit = REQ_LIMIT

C3_Witness ==
  /\ call = "download_full_klines"
  /\ pc = "get"
  /\ LastOf(fetched)[2] - LastOf(fetched)[1] = (REQ_LIMIT - 1) * ts_interval
  /\ CandlesIn(LastOf(fetched), ts_interval) = REQ_LIMIT

\* C4 (as claimed): for every supported token the conversion succeeds with
\* the token's duration in seconds, a positive integer.
ExpectedSeconds ==
  [t \in SUPPORT_INTERVAL \ { <<"1","M">> } |->
     CASE t = <<"1","m">> -> 60
       [] t = <<"3","m">> -> 180
       [] t = <<"5","m">> -> 300
       [] t = <<"1","5","m">> -> 900
       [] t = <<"3","0","m">> -> 1800
       [] t = <<"1","h">> -> 3600
       [] t = <<"2","h">> -> 7200
       [] t = <<"4","h">> -> 14400
       [] t = <<"6","h">> -> 21600
       [] t = <<"8","h">> -> 28800
       [] t = <<"1","2","h">> -> 43200
       [] t = <<"1","d">> -> 86400
       [] t = <<"3","d">> -> 259200
       [] t = <<"1","w">> -> 604800]

Converted ==
  call \in {"download_full_klines", "get_start_end_pairs"}
    /\ pc \notin {"download", "pairs"}

C4_SupportedConverts ==
  (Converted /\ interval \in SUPPORT_INTERVAL) =>
     /\ error \notin {"KeyError", "ValueError"}
     /\ ts_interval > 0
     /\ interval \in DOMAIN ExpectedSeconds =>
          ts_interval = ExpectedSeconds[interval]

\* C5 (as claimed): when the fetches of a download (at least one was made)
\* all returned the empty list, the call ends with the downloader's own
\* "no data" error and writes no file.
AllFetchesEmpty ==
  /\ call = "download_full_klines"
  /\ pc \in {"raised", "done"}
  /\ error \notin {"Exception: interval is not supported", "KeyError"}
  /\ results # <<>>
  /\ \A i \in 1..Len(results) : results[i] = <<>>

C5_ExplicitNoData ==
  AllFetchesEmpty => (pc = "raised" /\ error = "Exception: no data" /\ file = <<>>)

\* C6: get_klines stops at the first successful response: no request
\* follows a success, the value returned is that response, and the number
\* of requests is the number of failures plus one.
IsGet(e) == e.op = "GET"
Succeeded(e) == e.op = "GET" /\ e.arg >= 200 /\ e.arg < 300
Gets(l) == SelectSeq(l, IsGet)
HasSuccess(l) == \E i \in 1..Len(l) : Succeeded(l[i])

C6_StopsAtFirstSuccess ==
  LET g == Gets(log)
  IN  /\ \A i \in 1..(Len(g) - 1) : ~Succeeded(g[i])
      /\ HasSuccess(log) =>
           /\ pc # "get"
           /\ Len(g) <= retry_attempts
           /\ Len(g) = attempt + 1
           /\ call = "get_klines" => calls = Len(g)
           /\ pc = "ret" => (ret = resp.body /\ error = "none")

C6_Witness ==
  /\ call = "get_klines"
  /\ pc = "ret"
  /\ Len(Gets(log)) = 3
  /\ ~Succeeded(Gets(log)[1]) /\ ~Succeeded(Gets(log)[2])
  /\ Succeeded(Gets(log)[3])
  /\ calls = 3
  /\ ret # <<>>

\* C7: when every attempt fails, get_klines makes exactly retry_attempts
\* requests, sleeps 2 seconds after each (so between any two consecutive
\* requests) and returns the empty list without raising.
C7_ExhaustedReturnsEmpty ==
  (pc = "ret" /\ ~HasSuccess(log)) =>
     /\ Len(Gets(log)) = retry_attempts
     /\ Len(log) = 2 * retry_attempts
     /\ \A i \in 1..Len(log) :
          IF i % 2 = 1
          THEN IsGet(log[i])
          ELSE log[i] = [op |-> "sleep", arg |-> 2]
     /\ call = "get_klines" => calls = retry_attempts
     /\ ret = <<>>
     /\ error = "none"

C7_Witness ==
  /\ call = "get_klines"
  /\ pc = "ret"
  /\ retry_attempts = 3
  /\ ~HasSuccess(log)
  /\ Len(Gets(log)) = 3
  /\ ret = <<>>

\* C8: download_full_klines with an unsupported interval raises the
\* unsupported-interval error at once: no request was issued, no window
\* was computed and no file was written.
C8_UnsupportedFailsFirst ==
  (call = "download_full_klines" /\ interval \notin SUPPORT_INTERVAL
     /\ pc # "download") =>
     /\ pc = "raised"
     /\ error = "Exception: interval is not supported"
     /\ calls = 0 /\ log = <<>> /\ fetched = <<>>
     /\ res = <<>> /\ start_end_pairs = <<>> /\ ts_interval = 0
     /\ file = <<>>

C8_Witness ==
  /\ call = "download_full_klines"
  /\ interval = <<"2","m">>
  /\ pc = "raised"
  /\ error = "Exception: interval is not supported"

\* C9: the download loop calls get_klines once per window, in partition
\* order, whatever the calls return, and the rows kept are exactly the
\* non-empty results in that order.
NonEmpty(r) == r # <<>>
LoopOver ==
  /\ call = "download_full_klines"
  /\ \/ pc = "for" /\ idx > Len(start_end_pairs)
     \/ pc = "done"
     \/ pc = "raised" /\ error \in {"FileNotFoundError",
                          "ValueError: need at least one array to concatenate"}

C9_EveryWindowFetchedInOrder ==
  /\ (call = "download_full_klines" /\ pc \in {"for", "get", "ret"}) =>
       /\ Len(fetched) = IF pc = "for" THEN idx - 1 ELSE idx
       /\ Len(fetched) <= Len(start_end_pairs)
       /\ fetched = SubSeq(start_end_pairs, 1, Len(fetched))
       /\ Len(results) = idx - 1
       /\ klines = SelectSeq(results, NonEmpty)
  /\ LoopOver =>
       /\ fetched = start_end_pairs
       /\ Len(results) = Len(start_end_pairs)
  /\ (LoopOver /\ pc # "for") =>
       klines = Concatenate(SelectSeq(results, NonEmpty))

C9_Witness ==
  /\ LoopOver
  /\ pc = "for"
  /\ Len(start_end_pairs) >= 3
  /\ results[1] = <<>> /\ results[2] # <<>> /\ results[3] = <<>>
  /\ Len(klines) = 1

\* C10: the window loop terminates: each iteration strictly increases
\* cur_end, which never passes the overall end, and the loop is left once
\* cur_end >= end - interval seconds; with start later than end the body
\* never runs and no window is returned.
C10_LoopTerminates ==
  /\ [][WhileBody => (cur_end' > cur_end /\ cur_end' <= end_dt_ts)]_vars
  /\ [](pc = "while" => ts_interval > 0)
  /\ [](PairsReturned => cur_end >= end_dt_ts - ts_interval)
  /\ []((pc \in {"while", "returned"} /\ start_dt_ts > end_dt_ts)
          => (res = <<>> /\ (pc = "returned" => start_end_pairs = <<>>)))
  /\ (pc = "while") ~> (pc = "returned")

C10_Witness ==
  /\ pc = "returned"
  /\ Len(start_end_pairs) >= 3
  /\ cur_end >= end_dt_ts - ts_interval

\* The other case of C10: the call returns without entering the loop.
C10_WitnessStartAfterEnd ==
  /\ pc = "returned"
  /\ start_dt_ts > end_dt_ts
  /\ start_end_pairs = <<>>

====
